---- MODULE Spec2Model ----
(***************************************************************************)
(* zebra/mixins.py: mixins that forward attribute reads of a host object   *)
(* to the stripe SDK module.  The only state the code owns is the SDK's    *)
(* process-wide stripe.api_key; every operation takes the host object      *)
(* (self) as its input.  The model records, for the operation that ran     *)
(* last, the host it ran on, the SDK calls it issued, the SDK handle       *)
(* requests it made and how it ended.                                      *)
(***************************************************************************)
EXTENDS Integers, Sequences, FiniteSets, TLC

VARIABLES
    api_key,    \* stripe.api_key, the SDK's process-wide key
    op,         \* the operation that ran last; "idle" when its result was consumed
    self,       \* the host object it ran on
    want,       \* the mixin whose accessor the caller asked for
    ran,        \* the class whose getter the attribute lookup found
    arg,        \* the operation's other inputs: the resolver's name and default,
                \* the interpreter it runs under
    calls,      \* SDK calls issued by the operation, in order
    requests,   \* SDK handle requests (reads of self.stripe) made by the operation
    outcome,    \* how the operation ended: a returned value or a raised error
    writer      \* the most recent handle request by a host exposing stripe_api_key

vars == <<api_key, op, self, want, ran, arg, calls, requests, outcome, writer>>

----------------------------------------------------------------------------
(* Bounds of the model. *)
NumHosts == 2
NumKeys == 2

HostIds == 1..NumHosts
KeyIds == 1..NumKeys

----------------------------------------------------------------------------
(* Python objects.  Every object is a record of one shape: whether it is   *)
(* callable, its type, its payload (a text and a number), and the payload  *)
(* of its `subscription` attribute ("absent" when it has none).  A callable object carries the   *)
(* type and payload of what calling it returns.                            *)
PyVal(t, v, sub) == [callable |-> FALSE, t |-> t, v |-> v, n |-> 0, sub |-> sub]
None == PyVal("NoneType", "None", "absent")
False == PyVal("bool", "False", "absent")
Str(s) == PyVal("str", s, "absent")
Key(k) == [Str("sk") EXCEPT !.n = k]
Err(e) == PyVal("error", e, "absent")

(* A zero-argument callable (a bound method) returning v, and its call. *)
Method(v) == [v EXCEPT !.callable = TRUE]
callable(value) == value.callable
Call(value) == [value EXCEPT !.callable = FALSE]

(* What a host's attribute table holds for a name the host lacks. *)
Missing == PyVal("<missing>", "", "absent")

(* The ways a host can supply the value v under a name. *)
Kinds(v) == {Missing, v, Method(v)}

Return(v) == [kind |-> "return", val |-> v]
Raise(e) == [kind |-> "raise", val |-> Err(e)]

----------------------------------------------------------------------------
(* The mixin classes and what each defines. *)
CapabilityMixins ==
    {"StripeCustomerMixin", "StripePlanMixin", "StripeInvoiceMixin",
     "StripeInvoiceItemMixin", "StripeChargeMixin"}

(* The bases of ZebraMixin, in the order of its class statement: with      *)
(* single-rooted mixins the method resolution order is this order.         *)
ZebraMixin ==
    <<"StripeMixin", "StripeCustomerMixin", "StripeSubscriptionMixin",
      "StripePlanMixin", "StripeInvoiceMixin", "StripeInvoiceItemMixin",
      "StripeChargeMixin">>

(* The name under which each mixin publishes its property. *)
PropertyName(cls) ==
    CASE cls = "StripeMixin" -> "stripe"
      [] cls = "StripeCustomerMixin" -> "stripe_customer"
      [] cls = "StripeSubscriptionMixin" -> "stripe_subscription"
      [] cls = "StripePlanMixin" -> "stripe_plan"
      [] cls = "StripeInvoiceMixin" -> "stripe_invoice"
      [] cls = "StripeInvoiceItemMixin" -> "stripe_invoice"
      [] cls = "StripeChargeMixin" -> "stripe_charge"
      [] OTHER -> "stripe_sync"

(* Attribute lookup on the class: the first base, in resolution order,     *)
(* that defines the name; "AttributeError" when none does.                 *)
MroLookup(bases, name) ==
    LET hits == {i \in 1..Len(bases) : PropertyName(bases[i]) = name}
    IN  IF hits = {} THEN "AttributeError"
        ELSE bases[CHOOSE i \in hits : \A j \in hits : i <= j]

----------------------------------------------------------------------------
(* Host objects. *)
IdAttrs ==
    {"stripe_customer_id", "stripe_plan_id", "stripe_invoice_id",
     "stripe_invoice_item_id", "stripe_charge_id"}

AttrNames == IdAttrs \cup {"stripe_api_key", "stripe_customer"}

(* The id a host stores under each id attribute: one distinct id per       *)
(* attribute, so that a call shows which attribute it was read from.       *)
IdOf(attr) ==
    CASE attr = "stripe_customer_id" -> Str("cus_1")
      [] attr = "stripe_plan_id" -> Str("plan_1")
      [] attr = "stripe_invoice_id" -> Str("in_1")
      [] attr = "stripe_invoice_item_id" -> Str("ii_1")
      [] attr = "stripe_charge_id" -> Str("ch_1")

(* The class defaults of StripeSyncMixin. *)
(* A text is the sequence of its pieces, "." being a piece of its own; a   *)
(* callable is named by the SDK object it is (its path from the module).   *)
Text(s) == [kind |-> "str", s |-> s, target |-> <<>>]
Callable(target) == [kind |-> "callable", s |-> <<>>, target |-> target]
NoAttribute == [kind |-> "absent", s |-> <<>>, target |-> <<>>]

SyncDefaults ==
    [stripe_sync_enabled |-> FALSE,
     stripe_sync_kwargs |-> {},
     stripe_sync_method |-> Text(<<>>),
     stripe_method |-> NoAttribute]

(* A host that stores every id as a plain value and exposes no api key. *)
PlainAttrs ==
    [a \in AttrNames |-> IF a \in IdAttrs THEN IdOf(a) ELSE Missing]

Host(id, cls, attrs, sync) == [id |-> id, cls |-> cls, attrs |-> attrs, sync |-> sync]

NoHost == Host(0, <<>>, PlainAttrs, SyncDefaults)

KeyAttrs == UNION {Kinds(Key(k)) : k \in KeyIds}

----------------------------------------------------------------------------
(* hasattr and getattr on an attribute the host stores or defines. *)
hasattr(instance, attr) == instance.attrs[attr] # Missing
getattr(instance, attr) == instance.attrs[attr]

(* A resolver that forgets to call a callable attribute. *)
_get_attr_value_uncalled(instance, attr, default) ==
    IF hasattr(instance, attr) THEN getattr(instance, attr) ELSE default

(* _get_attr_value: the default when the attribute is missing, the result  *)
(* of calling it when it is callable, the attribute itself otherwise.      *)
_get_attr_value(instance, attr, default) ==
    IF hasattr(instance, attr)
    THEN LET value == getattr(instance, attr)
         IN  IF callable(value) THEN Call(value) ELSE value
    ELSE default

----------------------------------------------------------------------------
(* The stripe SDK, as far as the mixins use it.  An SDK object is named by *)
(* its attribute path from the module: <<>> is the module itself.          *)
SdkResources == {"Customer", "Plan", "Invoice", "InvoiceItem", "Charge"}
SdkOperations == {"retrieve", "create"}

SdkHasAttr(obj, name) ==
    \/ obj = <<>> /\ name \in SdkResources \cup {"api_key"}
    \/ Len(obj) = 1 /\ obj[1] \in SdkResources /\ name \in SdkOperations

SdkCallable(obj) ==
    \/ Len(obj) = 1 /\ obj[1] \in SdkResources
    \/ Len(obj) = 2

(* What the remote service answers to one call: a resource, with or        *)
(* without a subscription, or an error.                                    *)
SdkErrors == {"InvalidRequestError", "APIConnectionError"}
SdkResponses ==
    {[kind |-> "return", tag |-> s] : s \in {"absent", "sub_1"}}
        \cup {[kind |-> "raise", tag |-> e] : e \in SdkErrors}

(* The resource a successful call returns: it carries the id it was asked  *)
(* for and the type of the SDK class it was asked of.                      *)
Resource(res, id, sub) == [id EXCEPT !.t = res, !.sub = sub]

(* The effects of an operation so far: the process-wide key, the SDK calls *)
(* issued and the SDK handle requests made.                                *)
World(key, cs, rs) == [key |-> key, calls |-> cs, requests |-> rs]
Effect(w, out) == [w |-> w, out |-> out]

(* One SDK call: it is issued under the key the module holds at that       *)
(* moment, and ends as the service answers.  The call is logged with its   *)
(* target, its arguments, that key, the calling host and its result.       *)
SdkCall(w, caller, target, args, kwargs, resp) ==
    LET id == IF args = <<>> THEN None ELSE args[1]
        result == IF resp.kind = "return"
                  THEN Return(Resource(target[1], id, resp.tag))
                  ELSE Raise(resp.tag)
        call == [target |-> target, args |-> args, kwargs |-> kwargs,
                 key |-> w.key, by |-> caller.id, result |-> result]
    IN  Effect(World(w.key, Append(w.calls, call), w.requests), result)

----------------------------------------------------------------------------
(* A handle accessor that assigns the key without asking whether the host  *)
(* has one: a host without the attribute resets it to None.                *)
_get_stripe_unconditional(w, host) ==
    World(_get_attr_value(host, "stripe_api_key", None),
          w.calls,
          Append(w.requests, [by |-> host.id, attr |-> getattr(host, "stripe_api_key")]))

(* A handle accessor that configures the key once and keeps it after. *)
_get_stripe_cached(w, host) ==
    World(IF hasattr(host, "stripe_api_key") /\ w.key = None
          THEN _get_attr_value(host, "stripe_api_key", None)
          ELSE w.key,
          w.calls,
          Append(w.requests, [by |-> host.id, attr |-> getattr(host, "stripe_api_key")]))

(* StripeMixin._get_stripe: set stripe.api_key when the host has a         *)
(* stripe_api_key attribute; the module is returned either way.            *)
_get_stripe(w, host) ==
    World(IF hasattr(host, "stripe_api_key")
          THEN _get_attr_value(host, "stripe_api_key", None)
          ELSE w.key,
          w.calls,
          Append(w.requests, [by |-> host.id, attr |-> getattr(host, "stripe_api_key")]))

(* The getters of the capability mixins. *)
_get_stripe_customer(w, host, resp) ==
    SdkCall(_get_stripe(w, host), host, <<"Customer", "retrieve">>,
            <<_get_attr_value(host, "stripe_customer_id", None)>>, {}, resp)

_get_stripe_plan(w, host, resp) ==
    SdkCall(w, host, <<"Plan", "retrieve">>,
            <<_get_attr_value(host, "stripe_plan_id", None)>>, {}, resp)

StripeInvoiceMixin_get_stripe_invoice(w, host, resp) ==
    SdkCall(w, host, <<"Invoice", "retrieve">>,
            <<_get_attr_value(host, "stripe_invoice_id", None)>>, {}, resp)

StripeInvoiceItemMixin_get_stripe_invoice(w, host, resp) ==
    SdkCall(w, host, <<"Invoice", "retrieve">>,
            <<_get_attr_value(host, "stripe_invoice_item_id", None)>>, {}, resp)

(* A charge getter that tries once more when the call fails. *)
_get_stripe_charge_retrying(w, host, resp) ==
    LET id == _get_attr_value(host, "stripe_charge_id", None)
        first == SdkCall(w, host, <<"Charge", "retrieve">>, <<id>>, {}, resp)
    IN  IF first.out.kind = "raise"
        THEN SdkCall(first.w, host, <<"Charge", "retrieve">>, <<id>>, {}, resp)
        ELSE first

_get_stripe_charge(w, host, resp) ==
    SdkCall(w, host, <<"Charge", "retrieve">>,
            <<_get_attr_value(host, "stripe_charge_id", None)>>, {}, resp)

(* Reading a property: the getter of the class the lookup found runs; a    *)
(* name no base defines raises AttributeError.                             *)
RunGetter(cls, w, host, resp) ==
    CASE cls = "StripeCustomerMixin" -> _get_stripe_customer(w, host, resp)
      [] cls = "StripePlanMixin" -> _get_stripe_plan(w, host, resp)
      [] cls = "StripeInvoiceMixin" -> StripeInvoiceMixin_get_stripe_invoice(w, host, resp)
      [] cls = "StripeInvoiceItemMixin" -> StripeInvoiceItemMixin_get_stripe_invoice(w, host, resp)
      [] cls = "StripeChargeMixin" -> _get_stripe_charge(w, host, resp)
      [] OTHER -> Effect(w, Raise("AttributeError"))

----------------------------------------------------------------------------
(* hasattr under the two interpreters: Python 2 answers False whatever the *)
(* attribute's getter raises, Python 3 only when it raises AttributeError  *)
(* and lets any other error through.                                       *)
Interpreters == {"python2", "python3"}
HasattrSwallows(py, error) == py = "python2" \/ error = Err("AttributeError")

(* _get_attr_value on a name that may be a property of the host's class:   *)
(* hasattr runs the getter once, getattr runs it again.  A definition of   *)
(* the host's own takes precedence over the mixin's property.              *)
_get_attr_value_property(w, host, attr, default, r1, r2, py) ==
    LET cls == MroLookup(host.cls, attr)
        probe == RunGetter(cls, w, host, r1)
        got == RunGetter(cls, probe.w, host, r2)
    IN  IF hasattr(host, attr) \/ cls = "AttributeError"
        THEN Effect(w, Return(_get_attr_value(host, attr, default)))
        ELSE IF probe.out.kind = "raise"
        THEN IF HasattrSwallows(py, probe.out.val)
             THEN Effect(probe.w, Return(default))
             ELSE probe
        ELSE IF got.out.kind = "raise"
        THEN got
        ELSE Effect(got.w, Return(IF callable(got.out.val)
                                   THEN Call(got.out.val)
                                   ELSE got.out.val))

(* The `subscription` attribute of an object that has one. *)
SubscriptionOf(customer) == PyVal("Subscription", customer.sub, "absent")

(* A subscription getter that hands back the customer it resolved. *)
_get_stripe_subscription_returns_customer(w, host, r1, r2, py) ==
    _get_attr_value_property(w, host, "stripe_customer", None, r1, r2, py)

(* StripeSubscriptionMixin._get_stripe_subscription. *)
_get_stripe_subscription(w, host, r1, r2, py) ==
    LET c == _get_attr_value_property(w, host, "stripe_customer", None, r1, r2, py)
        customer == c.out.val
    IN  IF c.out.kind = "raise"
        THEN c
        ELSE Effect(c.w, Return(IF customer.sub # "absent"
                                 THEN SubscriptionOf(customer)
                                 ELSE None))

----------------------------------------------------------------------------
(* str.split('.'): the pieces between the dots, each a sequence of pieces  *)
(* of the text; a text without dots (the empty one too) is one part.       *)
RECURSIVE Split(_)
Split(s) ==
    IF s = <<>> THEN << <<>> >>
    ELSE LET rest == Split(Tail(s))
         IN  IF Head(s) = "."
             THEN << <<>> >> \o rest
             ELSE << <<Head(s)>> \o Head(rest) >> \o Tail(rest)

(* The attribute name a part spells. *)
NameOf(part) == IF Len(part) = 1 THEN part[1] ELSE ""

(* The loop of stripe_sync: getattr along the parts, from obj. *)
RECURSIVE Walk(_, _)
Walk(obj, parts) ==
    IF parts = <<>> THEN [ok |-> TRUE, obj |-> obj]
    ELSE IF SdkHasAttr(obj, NameOf(Head(parts)))
    THEN Walk(Append(obj, NameOf(Head(parts))), Tail(parts))
    ELSE [ok |-> FALSE, obj |-> obj]

(* Truth of the values the gate of stripe_sync reads. *)
Truthy(m) == m.kind = "callable" \/ (m.kind = "str" /\ m.s # <<>>)

(* The condition of stripe_sync, as written: self.stripe_sync is the bound *)
(* method itself, which is always true; stripe_sync_enabled is not read.   *)
StripeSyncGate(host) ==
    /\ TRUE
    /\ host.sync.stripe_sync_kwargs # {}
    /\ Truthy(host.sync.stripe_sync_method)

(* StripeSyncMixin.stripe_sync. *)
stripe_sync(w, host, resp) ==
    LET m == host.sync.stripe_method
        w1 == _get_stripe(w, host)
        found == Walk(<<>>, Split(host.sync.stripe_sync_method.s))
        kwargs == host.sync.stripe_sync_kwargs
    IN  IF ~StripeSyncGate(host)
        THEN Effect(w, Return(None))
        ELSE IF m.kind = "absent"
        THEN Effect(w, Raise("AttributeError"))
        ELSE IF m.kind = "callable"
        THEN Effect(SdkCall(w, host, m.target, <<>>, kwargs, resp).w,
                    IF resp.kind = "raise" THEN Raise(resp.tag) ELSE Return(None))
        ELSE IF host.sync.stripe_sync_method.kind # "str"
        THEN Effect(w1, Raise("AttributeError"))
        ELSE IF ~found.ok
        THEN Effect(w1, Raise("AttributeError"))
        ELSE IF SdkCallable(found.obj)
        THEN Effect(SdkCall(w1, host, found.obj, <<>>, kwargs, resp).w,
                    IF resp.kind = "raise" THEN Raise(resp.tag) ELSE Return(None))
        ELSE Effect(w1, Return(None))

----------------------------------------------------------------------------
(* The state machine. *)
NoWriter == [by |-> 0, attr |-> Missing]
Arg(name, default, py) == [name |-> name, default |-> default, py |-> py]
NoArg == Arg("", None, "")

(* The last request, among prev and then rs, by a host with the attribute. *)
RECURSIVE LastWriter(_, _)
LastWriter(prev, rs) ==
    IF rs = <<>> THEN prev
    ELSE LastWriter(IF Head(rs).attr # Missing THEN Head(rs) ELSE prev, Tail(rs))

Init ==
    /\ api_key = None
    /\ op = "idle"
    /\ self = NoHost
    /\ want = ""
    /\ ran = ""
    /\ arg = NoArg
    /\ calls = <<>>
    /\ requests = <<>>
    /\ outcome = Return(None)
    /\ writer = NoWriter

(* What every operation leaves behind.  Operations run one at a time, to   *)
(* completion: the next one starts when the caller has the result.         *)
Finish(name, host, e) ==
    /\ op' = name
    /\ self' = host
    /\ api_key' = e.w.key
    /\ calls' = e.w.calls
    /\ requests' = e.w.requests
    /\ outcome' = e.out
    /\ writer' = LastWriter(writer, e.w.requests)

Start == World(api_key, <<>>, <<>>)

(* A call of _get_attr_value on a host that supplies the name in one of    *)
(* the three ways. *)
GetAttrValue ==
    /\ op = "idle"
    /\ \E h \in HostIds, name \in IdAttrs, default \in {None, False} :
       \E a \in Kinds(IdOf(name)) :
           LET host == Host(h, ZebraMixin, [PlainAttrs EXCEPT ![name] = a], SyncDefaults)
           IN  /\ Finish("_get_attr_value", host,
                         Effect(Start, Return(_get_attr_value(host, name, default))))
               /\ arg' = Arg(name, default, "")
               /\ want' = ""
               /\ ran' = ""

(* A read of host.stripe. *)
GetStripe ==
    /\ op = "idle"
    /\ \E h \in HostIds, k \in KeyAttrs :
           LET host == Host(h, ZebraMixin, [PlainAttrs EXCEPT !["stripe_api_key"] = k],
                            SyncDefaults)
           IN  /\ Finish("stripe", host, Effect(_get_stripe(Start, host), Return(Str("stripe"))))
               /\ arg' = NoArg
               /\ want' = "StripeMixin"
               /\ ran' = MroLookup(host.cls, "stripe")

(* The property a capability mixin publishes, read on a host whose class   *)
(* is ZebraMixin or composes StripeMixin with that mixin alone.            *)
GetCapability ==
    /\ op = "idle"
    /\ \E h \in HostIds, k \in KeyAttrs, m \in CapabilityMixins, resp \in SdkResponses :
       \E cls \in {ZebraMixin, <<"StripeMixin", m>>} :
       \E name \in IdAttrs : \E a \in Kinds(IdOf(name)) :
           LET host == Host(h, cls,
                            [PlainAttrs EXCEPT !["stripe_api_key"] = k, ![name] = a],
                            SyncDefaults)
               found == MroLookup(cls, PropertyName(m))
           IN  /\ Finish("capability", host, RunGetter(found, Start, host, resp))
               /\ arg' = NoArg
               /\ want' = m
               /\ ran' = found

(* The customers a host can hold, and the ways it can supply one. *)
Customers == {Resource("Customer", Str("cus_1"), sub) : sub \in {"absent", "sub_1"}}
CustomerAttrs == UNION {Kinds(c) : c \in Customers}

(* host.stripe_subscription, read on a ZebraMixin host (whose              *)
(* stripe_customer is the property of StripeCustomerMixin) or on a host    *)
(* that composes the subscription mixin and supplies stripe_customer       *)
(* itself.                                                                 *)
GetSubscription ==
    /\ op = "idle"
    /\ \E h \in HostIds, k \in KeyAttrs, py \in Interpreters :
       \E r1 \in SdkResponses, r2 \in SdkResponses :
       \E cls \in {ZebraMixin, <<"StripeMixin", "StripeSubscriptionMixin">>} :
       \E c \in IF cls = ZebraMixin THEN {Missing} ELSE CustomerAttrs :
           LET host == Host(h, cls,
                            [PlainAttrs EXCEPT !["stripe_api_key"] = k,
                                               !["stripe_customer"] = c],
                            SyncDefaults)
           IN  /\ Finish("stripe_subscription", host,
                         _get_stripe_subscription(Start, host, r1, r2, py))
               /\ arg' = Arg("", None, py)
               /\ want' = "StripeSubscriptionMixin"
               /\ ran' = MroLookup(cls, "stripe_subscription")

(* The values a host can give the attributes stripe_sync reads. *)
SyncKwargs == {{}, {<<"email", "a@b.com">>}}
SyncMethods ==
    {Text(<<>>), Text(<<"Customer", ".", "create">>), Text(<<"api_key">>),
     Callable(<<"Customer", "create">>)}
StripeMethods ==
    {NoAttribute, Text(<<"Customer", ".", "create">>), Callable(<<"Customer", "create">>)}
SyncResponses == {r \in SdkResponses : r.tag # "sub_1"}

(* host.stripe_sync(), on a host that composes StripeSyncMixin with        *)
(* StripeMixin.                                                            *)
StripeSync ==
    /\ op = "idle"
    /\ \E h \in HostIds, k \in KeyAttrs, resp \in SyncResponses :
       \E enabled \in BOOLEAN, kwargs \in SyncKwargs :
       \E method \in SyncMethods, sm \in StripeMethods :
           LET host == Host(h, <<"StripeSyncMixin", "StripeMixin">>,
                            [PlainAttrs EXCEPT !["stripe_api_key"] = k],
                            [stripe_sync_enabled |-> enabled,
                             stripe_sync_kwargs |-> kwargs,
                             stripe_sync_method |-> method,
                             stripe_method |-> sm])
           IN  /\ Finish("stripe_sync", host, stripe_sync(Start, host, resp))
               /\ arg' = NoArg
               /\ want' = "StripeSyncMixin"
               /\ ran' = MroLookup(host.cls, "stripe_sync")

(* The caller takes the result; the process-wide key stays as it is. *)
Forget ==
    /\ op # "idle"
    /\ op' = "idle"
    /\ self' = NoHost
    /\ want' = ""
    /\ ran' = ""
    /\ arg' = NoArg
    /\ calls' = <<>>
    /\ requests' = <<>>
    /\ outcome' = Return(None)
    /\ UNCHANGED <<api_key, writer>>

Next ==
    \/ Forget
    \/ GetAttrValue
    \/ GetStripe
    \/ GetCapability
    \/ GetSubscription
    \/ StripeSync

Spec == Init /\ [][Next]_vars

----------------------------------------------------------------------------
(* What the claims expect, stated apart from the operators above. *)

(* The value an attribute resolves to: the default when it is missing, the *)
(* result of the call when it is a callable, the stored value otherwise.   *)
Resolved(x, default) ==
    IF x = Missing THEN default
    ELSE IF x.callable THEN [x EXCEPT !.callable = FALSE]
    ELSE x

(* The SDK resource and the host attribute that belong to each capability. *)
ResourceOf(m) ==
    CASE m = "StripeCustomerMixin" -> "Customer"
      [] m = "StripePlanMixin" -> "Plan"
      [] m = "StripeInvoiceMixin" -> "Invoice"
      [] m = "StripeInvoiceItemMixin" -> "InvoiceItem"
      [] m = "StripeChargeMixin" -> "Charge"

IdAttrOf(m) ==
    CASE m = "StripeCustomerMixin" -> "stripe_customer_id"
      [] m = "StripePlanMixin" -> "stripe_plan_id"
      [] m = "StripeInvoiceMixin" -> "stripe_invoice_id"
      [] m = "StripeInvoiceItemMixin" -> "stripe_invoice_item_id"
      [] m = "StripeChargeMixin" -> "stripe_charge_id"

Exposes(host, attr) == host.attrs[attr] # Missing
HostKey(host) == Resolved(host.attrs["stripe_api_key"], None)
Names(s) == SelectSeq(s, LAMBDA piece : piece # ".")
Last(q) == q[Len(q)]

(* C1: stripe_sync issues no SDK call and raises no error when syncing is  *)
(* disabled, or stripe_sync_kwargs is empty, or stripe_sync_method is      *)
(* empty; each of the three alone suffices.                                *)
C1_GatedSyncIsSilent ==
    (/\ op = "stripe_sync"
     /\ \/ ~self.sync.stripe_sync_enabled
        \/ self.sync.stripe_sync_kwargs = {}
        \/ self.sync.stripe_sync_method = Text(<<>>))
    => calls = <<>> /\ outcome.kind = "return"

(* C2: with syncing enabled, non-empty kwargs and a sync method that is a  *)
(* callable or names one by its dotted path from the SDK handle,           *)
(* stripe_sync issues exactly one call, of that callable, with exactly     *)
(* the keyword arguments of stripe_sync_kwargs.                            *)
C2_SyncCallsMethodOnce ==
    LET m == self.sync.stripe_sync_method
        target == IF m.kind = "callable" THEN m.target ELSE Names(m.s)
    IN  (/\ op = "stripe_sync"
         /\ self.sync.stripe_sync_enabled
         /\ self.sync.stripe_sync_kwargs # {}
         /\ m # Text(<<>>)
         /\ Len(target) = 2)
        => /\ Len(calls) = 1
           /\ calls[1].target = target
           /\ calls[1].args = <<>>
           /\ calls[1].kwargs = self.sync.stripe_sync_kwargs

(* C3: the accessor of each capability mixin issues the retrieve call of   *)
(* the SDK resource of its own name, with exactly the id resolved from the *)
(* matching host attribute, and returns that call's result.                *)
C3_AccessorRetrievesOwnResource ==
    (op = "capability" /\ self.cls = <<"StripeMixin", want>>)
    => /\ Len(calls) = 1
       /\ calls[1].target = <<ResourceOf(want), "retrieve">>
       /\ calls[1].args = <<Resolved(self.attrs[IdAttrOf(want)], None)>>
       /\ calls[1].kwargs = {}
       /\ outcome = calls[1].result

(* C4: a read of host.stripe sets the process-wide key to the value        *)
(* resolved from the host's stripe_api_key when the host has one, leaves   *)
(* it as it was when the host has none, and returns the SDK module either  *)
(* way.                                                                    *)
C4_KeySetIffExposed ==
    [][op' = "stripe"
       => /\ api_key' = IF Exposes(self', "stripe_api_key")
                        THEN HostKey(self')
                        ELSE api_key
          /\ outcome' = Return(Str("stripe"))
          /\ calls' = <<>>]_vars

C4_Witness ==
    /\ op = "stripe"
    /\ ~Exposes(self, "stripe_api_key")
    /\ api_key # None
    /\ writer.by # self.id

(* C5: _get_attr_value returns the default when the host lacks the         *)
(* attribute, the result of calling the attribute when it is callable      *)
(* (never the callable), and the stored value otherwise.                   *)
C5_ResolverCases ==
    op = "_get_attr_value"
    => LET x == self.attrs[arg.name]
       IN  /\ x = Missing => outcome = Return(arg.default)
           /\ x # Missing /\ x.callable
                => outcome = Return([x EXCEPT !.callable = FALSE])
           /\ x # Missing /\ ~x.callable => outcome = Return(x)
           /\ calls = <<>>

C5_Witness ==
    /\ op = "_get_attr_value"
    /\ self.attrs[arg.name].callable
    /\ outcome = Return(IdOf(arg.name))

(* C6: the subscription accessor returns None when the customer it         *)
(* resolved has no subscription attribute (or the host has no              *)
(* stripe_customer), returns the customer's subscription otherwise, and    *)
(* issues no SDK call but those of resolving stripe_customer: an error it  *)
(* raises is the error of such a call.                                     *)
C6_SubscriptionOfCustomer ==
    op = "stripe_subscription"
    => LET own == self.attrs["stripe_customer"]
           customer ==
               IF own # Missing THEN Resolved(own, None)
               ELSE IF calls # <<>> /\ Last(calls).result.kind = "return"
               THEN Last(calls).result.val
               ELSE None
       IN  /\ outcome.kind = "return"
                => outcome.val = IF customer.sub = "absent"
                                 THEN None
                                 ELSE PyVal("Subscription", customer.sub, "absent")
           /\ outcome.kind = "raise"
                => calls # <<>> /\ outcome = Last(calls).result
           /\ \A i \in 1..Len(calls) :
                calls[i].target = <<"Customer", "retrieve">>
           /\ (own # Missing \/ "StripeCustomerMixin" \notin {self.cls[i] : i \in 1..Len(self.cls)})
                => calls = <<>>

C6_Witness ==
    /\ op = "stripe_subscription"
    /\ self.cls = ZebraMixin
    /\ outcome = Return(PyVal("Subscription", "sub_1", "absent"))

(* C7: on a ZebraMixin host every accessor of the individual mixins is     *)
(* reachable and none is shadowed: the getter that runs for a mixin's      *)
(* accessor is that mixin's own.                                           *)
C7_ZebraShadowsNothing ==
    (op \in {"stripe", "capability", "stripe_subscription"} /\ self.cls = ZebraMixin)
    => ran = want

(* C8: every capability accessor issues its retrieve call under the key of *)
(* its own host, when the host exposes stripe_api_key, whatever other      *)
(* hosts accessed before.                                                  *)
C8_RetrieveUnderHostKey ==
    (op = "capability" /\ Exposes(self, "stripe_api_key"))
    => \A i \in 1..Len(calls) : calls[i].key = HostKey(self)

(* C9: the process-wide key is the key resolved, at its request, from the  *)
(* most recent host that requested the SDK handle and exposes              *)
(* stripe_api_key; it is None while no such host has requested it.         *)
C9_LastWriterWins ==
    api_key = IF writer = NoWriter THEN None ELSE Resolved(writer.attr, None)

(* Host A issues an SDK call while the key is the one host B wrote. *)
C9_Witness ==
    /\ calls # <<>>
    /\ Exposes(self, "stripe_api_key")
    /\ writer # NoWriter
    /\ writer.by # self.id
    /\ calls[1].by = self.id
    /\ calls[1].key = Resolved(writer.attr, None)
    /\ calls[1].key # HostKey(self)

(* C10: a capability accessor issues exactly one retrieve call, passes     *)
(* None as the id when the host lacks the id attribute the accessor reads, *)
(* and ends as that call ends: the call's error is raised unchanged, and   *)
(* there is no second call.                                                *)
C10_ErrorsSurface ==
    (op = "capability" /\ ran \in CapabilityMixins)
    => /\ Len(calls) = 1
       /\ ~Exposes(self, IdAttrOf(ran)) => calls[1].args = <<None>>
       /\ outcome = calls[1].result

C10_Witness ==
    /\ op = "capability"
    /\ ran \in CapabilityMixins
    /\ ~Exposes(self, IdAttrOf(ran))
    /\ calls[1].args = <<None>>
    /\ outcome = Raise("InvalidRequestError")

====
